---- MODULE Spec2Model ----
(***************************************************************************)
(* State-machine model of rocALUTION's HIP block-compressed-sparse-row     *)
(* matrix, src/base/hip/hip_matrix_bcsr.cpp.                               *)
(*                                                                         *)
(* Two device handles (HIPAcceleratorMatrixBCSR) and one host handle       *)
(* (HostMatrixBCSR) live over one heap of arrays.  Every public method is  *)
(* one action; a method body is a composition of operators over a call     *)
(* context (a record holding the handles, the heap, the outstanding        *)
(* asynchronous copies and what the call has observed so far).             *)
(***************************************************************************)
EXTENDS Integers, Sequences, FiniteSets, TLC

(* ---- bounds of the model ---- *)
MaxNnzb == 1
MaxNrowb == 1
MaxNcolb == 1
MaxBlockdim == 2
MaxArrays == 12
MaxPending == 3
MaxExt == 1
MaxCalls == 3

(* ---- program constants ---- *)
NULL == 0
Indeterminate == -99
SizeofInt == 4
ValueSizes == {4, 8}

(* values an indeterminate (never written) int member may turn out to hold *)
GarbageVals == {0, 2}

(* what the four never-written block counts of a mat_ may turn out to hold *)
GarbageLayouts ==
    {[nrowb |-> 0, ncolb |-> 0, nnzb |-> 0, blockdim |-> 0],
     [nrowb |-> 1, ncolb |-> 1, nnzb |-> 0, blockdim |-> 2]}

Dev == {"d1", "d2"}
Host == {"h1"}
Handles == Dev \cup Host

VARIABLES hd, heap, pending, ext, fault, last, vsize, calls, gone

vars == <<hd, heap, pending, ext, fault, last, vsize, calls, gone>>

(***************************************************************************)
(* A handle after construction: nrow_/ncol_/nnz_ are 0, the three array    *)
(* pointers are NULL, and the block counts of mat_ are never written.      *)
(***************************************************************************)
FreshHandle ==
    [nrow |-> 0, ncol |-> 0, nnz |-> 0, blockdim_ |-> Indeterminate,
     nrowb |-> Indeterminate, ncolb |-> Indeterminate,
     nnzb |-> Indeterminate, blockdim |-> Indeterminate,
     row_offset |-> NULL, col |-> NULL, val |-> NULL]

NoCall ==
    [op |-> "none", h |-> "none", a |-> "none", src |-> "none", dst |-> "none",
     args |-> <<>>, ret |-> "void",
     srcNnz |-> 0, dstNnz |-> 0, alloc |-> <<>>, issued |-> <<>>,
     raced |-> FALSE, given |-> <<>>, rets |-> <<>>, afterSet |-> FALSE,
     info |-> <<>>, x |-> <<>>, xtype |-> "none", y0 |-> <<>>, ytype |-> "none",
     y |-> <<>>, kernel |-> FALSE, afterAsync |-> FALSE]

(* ---- the heap ---- *)
Live(hp, p) == p # NULL /\ hp[p] # <<>>

FreeIds(hp) == {i \in DOMAIN hp : hp[i] = <<>>}

NewId(hp) == CHOOSE i \in FreeIds(hp) : \A j \in FreeIds(hp) : i <= j

(* the call context *)
Ctx(h0, hp, pd, gb) ==
    [hd |-> h0, heap |-> hp, pending |-> pd, garb |-> gb, fault |-> "none",
     raced |-> FALSE, alloc |-> <<>>, issued |-> <<>>,
     ret |-> "void", out |-> <<>>, info |-> <<>>, y |-> <<>>, kernel |-> FALSE]

(***************************************************************************)
(* Reading the block counts of a handle.  A count that no call has written *)
(* since construction is indeterminate; the call finds the values          *)
(* st.garb[h] in its place.                                                *)
(***************************************************************************)
Rd(st, h) ==
    LET r == st.hd[h]
        g == st.garb[h]
    IN [r EXCEPT !.nrowb = IF @ = Indeterminate THEN g.nrowb ELSE @,
                 !.ncolb = IF @ = Indeterminate THEN g.ncolb ELSE @,
                 !.nnzb = IF @ = Indeterminate THEN g.nnzb ELSE @,
                 !.blockdim = IF @ = Indeterminate THEN g.blockdim ELSE @]

Fail(st, why) == IF st.fault = "none" THEN [st EXCEPT !.fault = why] ELSE st

(* one array copy of n leading elements *)
DoCopy(hp, dst, src, n) ==
    IF Live(hp, dst) /\ Live(hp, src)
    THEN [hp EXCEPT ![dst] = [i \in 1..Len(hp[dst]) |->
                                 IF i <= n /\ i <= Len(hp[src])
                                 THEN hp[src][i] ELSE hp[dst][i]]]
    ELSE hp

RECURSIVE ApplyAll(_, _)
ApplyAll(hp, P) ==
    IF P = {} THEN hp
    ELSE LET p == CHOOSE x \in P : TRUE
         IN ApplyAll(DoCopy(hp, p.dst, p.src, p.n), P \ {p})

(* hipDeviceSynchronize: every outstanding asynchronous copy completes *)
hipDeviceSynchronize(st) ==
    IF st.fault # "none" THEN st
    ELSE [st EXCEPT !.heap = ApplyAll(st.heap, st.pending), !.pending = {}]

(***************************************************************************)
(* allocate_hip(n, &ptr): a new array of n elements of unspecified         *)
(* content.  A call that finds no free array marks the context "oom"; the  *)
(* actions are disabled in that case (the heap of the model is bounded).   *)
(***************************************************************************)
allocate_hip(st, n, h, f) ==
    IF st.fault # "none" THEN st
    ELSE IF n <= 0 THEN st
    ELSE IF FreeIds(st.heap) = {} THEN Fail(st, "oom")
    ELSE LET id == NewId(st.heap)
         IN [st EXCEPT !.heap[id] = [i \in 1..n |-> Indeterminate],
                       !.hd[h][f] = id]

set_to_zero_hip(st, n, h, f) ==
    IF st.fault # "none" THEN st
    ELSE LET p == st.hd[h][f]
         IN IF n <= 0 \/ ~Live(st.heap, p) THEN st
            ELSE [st EXCEPT !.heap[p] = [i \in 1..Len(@) |->
                                            IF i <= n THEN 0 ELSE @[i]]]

(***************************************************************************)
(* free_hip(&ptr): releases the array and nulls the pointer.  A copy that  *)
(* is still outstanding on the array is a race; it either completed just   *)
(* before the release (early = TRUE) or never takes effect.                *)
(***************************************************************************)
free_hip(st, h, f, early) ==
    IF st.fault # "none" THEN st
    ELSE LET p == st.hd[h][f]
             hit == {c \in st.pending : c.dst = p \/ c.src = p}
             hp1 == IF early THEN ApplyAll(st.heap, hit) ELSE st.heap
         IN IF p = NULL THEN st
            ELSE [st EXCEPT !.heap = [hp1 EXCEPT ![p] = <<>>],
                            !.pending = @ \ hit,
                            !.raced = @ \/ hit # {},
                            !.hd[h][f] = NULL]

(* Clear that frees the arrays but leaves nrow_, ncol_ and nnz_ as they were *)
Clear_KeepsShape(st, h, early) ==
    IF st.fault # "none" THEN st
    ELSE IF st.hd[h].nnz > 0
    THEN LET s1 == free_hip(st, h, "row_offset", early)
             s2 == free_hip(s1, h, "col", early)
         IN free_hip(s2, h, "val", early)
    ELSE st

(* ---- HIPAcceleratorMatrixBCSR::Clear ---- *)
Clear(st, h, early) ==
    IF st.fault # "none" THEN st
    ELSE IF st.hd[h].nnz > 0
    THEN LET s1 == free_hip(st, h, "row_offset", early)
             s2 == free_hip(s1, h, "col", early)
             s3 == free_hip(s2, h, "val", early)
         IN [s3 EXCEPT !.hd[h].nrow = 0, !.hd[h].ncol = 0, !.hd[h].nnz = 0]
    ELSE st

(* ---- HIPAcceleratorMatrixBCSR::~HIPAcceleratorMatrixBCSR ---- *)
(* Clear, then rocsparse_destroy_mat_descr on the descriptor *)
Destructor(st, h, early) == Clear(st, h, early)

(* AllocateBCSR that forgets to zero the value array *)
AllocateBCSR_NoZeroVal(st, h, nnzb, nrowb, ncolb, blockdim, early) ==
    IF st.fault # "none" THEN st
    ELSE IF ~(nnzb >= 0 /\ ncolb >= 0 /\ nrowb >= 0 /\ blockdim > 1)
    THEN Fail(st, "assert")
    ELSE LET s0 == IF st.hd[h].nnz > 0 THEN Clear(st, h, early) ELSE st
         IN IF nnzb > 0
            THEN LET a1 == allocate_hip(s0, nrowb + 1, h, "row_offset")
                     a2 == allocate_hip(a1, nnzb, h, "col")
                     a3 == allocate_hip(a2, nnzb * blockdim * blockdim, h, "val")
                     z1 == set_to_zero_hip(a3, nrowb + 1, h, "row_offset")
                     z3 == set_to_zero_hip(z1, nnzb, h, "col")
                 IN IF z3.fault # "none" THEN z3
                    ELSE [z3 EXCEPT !.hd[h].nrow = nrowb * blockdim,
                                    !.hd[h].ncol = ncolb * blockdim,
                                    !.hd[h].nnz = nnzb * blockdim * blockdim,
                                    !.hd[h].nrowb = nrowb,
                                    !.hd[h].ncolb = ncolb,
                                    !.hd[h].nnzb = nnzb,
                                    !.hd[h].blockdim = blockdim]
            ELSE s0

(* ---- HIPAcceleratorMatrixBCSR::AllocateBCSR ---- *)
AllocateBCSR(st, h, nnzb, nrowb, ncolb, blockdim, early) ==
    IF st.fault # "none" THEN st
    ELSE IF ~(nnzb >= 0 /\ ncolb >= 0 /\ nrowb >= 0 /\ blockdim > 1)
    THEN Fail(st, "assert")
    ELSE LET s0 == IF st.hd[h].nnz > 0 THEN Clear(st, h, early) ELSE st
         IN IF nnzb > 0
            THEN LET a1 == allocate_hip(s0, nrowb + 1, h, "row_offset")
                     a2 == allocate_hip(a1, nnzb, h, "col")
                     a3 == allocate_hip(a2, nnzb * blockdim * blockdim, h, "val")
                     z1 == set_to_zero_hip(a3, nrowb + 1, h, "row_offset")
                     z2 == set_to_zero_hip(z1, nnzb, h, "col")
                     z3 == set_to_zero_hip(z2, nnzb * blockdim * blockdim, h, "val")
                 IN IF z3.fault # "none" THEN z3
                    ELSE [z3 EXCEPT !.hd[h].nrow = nrowb * blockdim,
                                    !.hd[h].ncol = ncolb * blockdim,
                                    !.hd[h].nnz = nnzb * blockdim * blockdim,
                                    !.hd[h].nrowb = nrowb,
                                    !.hd[h].ncolb = ncolb,
                                    !.hd[h].nnzb = nnzb,
                                    !.hd[h].blockdim = blockdim]
            ELSE s0

(* SetDataPtrBCSR that adopts the arrays without clearing the handle first *)
SetDataPtrBCSR_NoClear(st, h, t, early) ==
    IF st.fault # "none" THEN st
    ELSE IF ~(t.row_offset # NULL /\ t.col # NULL /\ t.val # NULL
              /\ t.nnzb > 0 /\ t.nrowb > 0 /\ t.ncolb > 0 /\ t.blockdim > 1)
    THEN Fail(st, "assert")
    ELSE LET s2 == hipDeviceSynchronize(st)
         IN [s2 EXCEPT !.hd[h].blockdim_ = t.blockdim,
                       !.hd[h].nrow = t.nrowb * t.blockdim,
                       !.hd[h].ncol = t.ncolb * t.blockdim,
                       !.hd[h].nnz = t.nnzb * t.blockdim * t.blockdim,
                       !.hd[h].nrowb = t.nrowb,
                       !.hd[h].ncolb = t.ncolb,
                       !.hd[h].nnzb = t.nnzb,
                       !.hd[h].blockdim = t.blockdim,
                       !.hd[h].row_offset = t.row_offset,
                       !.hd[h].col = t.col,
                       !.hd[h].val = t.val]

(* ---- HIPAcceleratorMatrixBCSR::SetDataPtrBCSR ---- *)
SetDataPtrBCSR(st, h, t, early) ==
    IF st.fault # "none" THEN st
    ELSE IF ~(t.row_offset # NULL /\ t.col # NULL /\ t.val # NULL
              /\ t.nnzb > 0 /\ t.nrowb > 0 /\ t.ncolb > 0 /\ t.blockdim > 1)
    THEN Fail(st, "assert")
    ELSE LET s1 == Clear(st, h, early)
             s2 == hipDeviceSynchronize(s1)
         IN [s2 EXCEPT !.hd[h].blockdim_ = t.blockdim,
                       !.hd[h].nrow = t.nrowb * t.blockdim,
                       !.hd[h].ncol = t.ncolb * t.blockdim,
                       !.hd[h].nnz = t.nnzb * t.blockdim * t.blockdim,
                       !.hd[h].nrowb = t.nrowb,
                       !.hd[h].ncolb = t.ncolb,
                       !.hd[h].nnzb = t.nnzb,
                       !.hd[h].blockdim = t.blockdim,
                       !.hd[h].row_offset = t.row_offset,
                       !.hd[h].col = t.col,
                       !.hd[h].val = t.val]

(* LeaveDataPtrBCSR that hands out the arrays but keeps its val pointer *)
LeaveDataPtrBCSR_KeepsVal(st, h) ==
    IF st.fault # "none" THEN st
    ELSE IF ~(st.hd[h].nrow > 0 /\ st.hd[h].ncol > 0 /\ st.hd[h].nnz > 0
              /\ Rd(st, h).blockdim > 1)
    THEN Fail(st, "assert")
    ELSE LET s1 == hipDeviceSynchronize(st)
             r == Rd(s1, h)
         IN [s1 EXCEPT !.out = <<r.row_offset, r.col, r.val, r.blockdim>>,
                       !.hd[h].row_offset = NULL,
                       !.hd[h].col = NULL,
                       !.hd[h].blockdim = 0,
                       !.hd[h].nrow = 0,
                       !.hd[h].ncol = 0,
                       !.hd[h].nnz = 0]

(* LeaveDataPtrBCSR without hipDeviceSynchronize *)
LeaveDataPtrBCSR_NoSync(st, h) ==
    IF st.fault # "none" THEN st
    ELSE IF ~(st.hd[h].nrow > 0 /\ st.hd[h].ncol > 0 /\ st.hd[h].nnz > 0
              /\ Rd(st, h).blockdim > 1)
    THEN Fail(st, "assert")
    ELSE LET r == Rd(st, h)
         IN [st EXCEPT !.out = <<r.row_offset, r.col, r.val, r.blockdim>>,
                       !.hd[h].row_offset = NULL,
                       !.hd[h].col = NULL,
                       !.hd[h].val = NULL,
                       !.hd[h].blockdim = 0,
                       !.hd[h].nrow = 0,
                       !.hd[h].ncol = 0,
                       !.hd[h].nnz = 0]

(* LeaveDataPtrBCSR that hands out the arrays and keeps them as its own *)
LeaveDataPtrBCSR_KeepsAll(st, h) ==
    IF st.fault # "none" THEN st
    ELSE IF ~(st.hd[h].nrow > 0 /\ st.hd[h].ncol > 0 /\ st.hd[h].nnz > 0
              /\ Rd(st, h).blockdim > 1)
    THEN Fail(st, "assert")
    ELSE LET s1 == hipDeviceSynchronize(st)
             r == Rd(s1, h)
         IN [s1 EXCEPT !.out = <<r.row_offset, r.col, r.val, r.blockdim>>]

(* ---- HIPAcceleratorMatrixBCSR::LeaveDataPtrBCSR ---- *)
(* out = <<*row_offset, *col, *val, blockdim>> as handed to the caller *)
LeaveDataPtrBCSR(st, h) ==
    IF st.fault # "none" THEN st
    ELSE IF ~(st.hd[h].nrow > 0 /\ st.hd[h].ncol > 0 /\ st.hd[h].nnz > 0
              /\ Rd(st, h).blockdim > 1)
    THEN Fail(st, "assert")
    ELSE LET s1 == hipDeviceSynchronize(st)
             r == Rd(s1, h)
         IN [s1 EXCEPT !.out = <<r.row_offset, r.col, r.val, r.blockdim>>,
                       !.hd[h].row_offset = NULL,
                       !.hd[h].col = NULL,
                       !.hd[h].val = NULL,
                       !.hd[h].blockdim = 0,
                       !.hd[h].nrow = 0,
                       !.hd[h].ncol = 0,
                       !.hd[h].nnz = 0]

(***************************************************************************)
(* hipMemcpy(dst, src, bytes, kind): a blocking copy on the null stream;   *)
(* the copies issued before it have completed when it runs.  elem is the   *)
(* size of one element of the two arrays, so bytes \div elem leading       *)
(* elements move.  A copy of a positive size through a pointer that is not *)
(* allocated is reported by CHECK_HIP_ERROR and ends the process.          *)
(***************************************************************************)
hipMemcpy(st, dh, sh, f, bytes, elem) ==
    IF st.fault # "none" THEN st
    ELSE LET s1 == hipDeviceSynchronize(st)
             d == s1.hd[dh][f]
             s == s1.hd[sh][f]
             n == bytes \div elem
             s2 == [s1 EXCEPT !.issued = Append(@, [f |-> f, bytes |-> bytes])]
         IN IF n <= 0 THEN s2
            ELSE IF ~Live(s2.heap, d) \/ ~Live(s2.heap, s) THEN Fail(s2, "hip_error")
            ELSE [s2 EXCEPT !.heap = DoCopy(@, d, s, n)]

(* hipMemcpyAsync(dst, src, bytes, kind): the copy is queued, not awaited *)
hipMemcpyAsync(st, dh, sh, f, bytes, elem) ==
    IF st.fault # "none" THEN st
    ELSE LET d == st.hd[dh][f]
             s == st.hd[sh][f]
             n == bytes \div elem
             s2 == [st EXCEPT !.issued = Append(@, [f |-> f, bytes |-> bytes])]
         IN IF n <= 0 THEN s2
            ELSE IF ~Live(s2.heap, d) \/ ~Live(s2.heap, s) THEN Fail(s2, "hip_error")
            ELSE [s2 EXCEPT !.pending = @ \cup {[dst |-> d, src |-> s, n |-> n]}]

(* HostMatrixBCSR::AllocateBCSR, the host mirror of AllocateBCSR *)
HostAllocateBCSR(st, h, nnzb, nrowb, ncolb, blockdim, early) ==
    AllocateBCSR(st, h, nnzb, nrowb, ncolb, blockdim, early)

(* first-use allocation of the destination, with the arguments recorded *)
AllocateLike(st, d, s, early) ==
    IF st.fault # "none" THEN st
    ELSE LET r == Rd(st, s)
             s0 == [st EXCEPT !.alloc = <<r.nnzb, r.nrowb, r.ncolb, r.blockdim>>]
         IN IF d \in Host
            THEN HostAllocateBCSR(s0, d, r.nnzb, r.nrowb, r.ncolb, r.blockdim, early)
            ELSE AllocateBCSR(s0, d, r.nnzb, r.nrowb, r.ncolb, r.blockdim, early)

(* the seven shape assertions that precede the copies *)
ShapeAsserts(st, a, b) ==
    IF st.fault # "none" THEN st
    ELSE LET x == Rd(st, a)
             y == Rd(st, b)
         IN IF /\ x.nnz = y.nnz
               /\ x.nrow = y.nrow
               /\ x.ncol = y.ncol
               /\ x.nrowb = y.nrowb
               /\ x.ncolb = y.ncolb
               /\ x.nnzb = y.nnzb
               /\ x.blockdim = y.blockdim
            THEN st ELSE Fail(st, "assert")

(* the blocking copies with the column-index copy left out *)
SyncCopies_NoCol(st, this, d, s) ==
    LET r == Rd(st, this)
        c1 == hipMemcpy(st, d, s, "row_offset", (r.nrowb + 1) * SizeofInt, SizeofInt)
    IN hipMemcpy(c1, d, s, "val", r.nnzb * r.blockdim * r.blockdim * vsize, vsize)

(* the three blocking copies; sizes are taken from the handle `this` *)
SyncCopies(st, this, d, s) ==
    LET r == Rd(st, this)
        c1 == hipMemcpy(st, d, s, "row_offset", (r.nrowb + 1) * SizeofInt, SizeofInt)
        c2 == hipMemcpy(c1, d, s, "col", r.nnzb * SizeofInt, SizeofInt)
    IN hipMemcpy(c2, d, s, "val", r.nnzb * r.blockdim * r.blockdim * vsize, vsize)

(* the three queued copies, issued only when this->nnz_ > 0 *)
AsyncCopies(st, this, d, s) ==
    IF st.fault # "none" THEN st
    ELSE IF st.hd[this].nnz > 0
    THEN LET r == Rd(st, this)
             c1 == hipMemcpyAsync(st, d, s, "row_offset", (r.nrowb + 1) * SizeofInt, SizeofInt)
             c2 == hipMemcpyAsync(c1, d, s, "col", r.nnzb * SizeofInt, SizeofInt)
         IN hipMemcpyAsync(c2, d, s, "val",
                           r.nnzb * r.blockdim * r.blockdim * SizeofInt, vsize)
    ELSE st

(***************************************************************************)
(* The matrices a copy may be handed besides the three handles: "other" is *)
(* a BCSR matrix of a backend that is neither host nor HIP, "hother" a     *)
(* host matrix of format BCSR that is not a HostMatrixBCSR, "csr" a        *)
(* HIPAcceleratorMatrixCSR.                                                *)
(***************************************************************************)
FormatBCSR == Handles \cup {"other", "hother"}

IsHostMatrix(a) == a \in Host \cup {"hother"}

(* assert(this->GetMatFormat() == src.GetMatFormat()) *)
FormatAssert(st, a) ==
    IF st.fault # "none" THEN st
    ELSE IF a \in FormatBCSR THEN st
    ELSE Fail(st, "assert")

(* the unsupported-type branch that only returns false *)
Unsupported_ReturnsFalse(st, this, a) ==
    IF st.fault # "none" THEN st ELSE [st EXCEPT !.ret = "false"]

(* the unsupported-type branch: Info of both operands, then FATAL_ERROR *)
Unsupported(st, this, a) ==
    IF st.fault # "none" THEN st
    ELSE Fail([st EXCEPT !.info = <<this, a>>], "fatal")

(* ---- HIPAcceleratorMatrixBCSR::CopyFromHost ---- *)
CopyFromHost(st, this, src, early) ==
    LET s0 == FormatAssert(st, src)
    IN IF src \in Host
       THEN LET s1 == IF s0.hd[this].nnz = 0 THEN AllocateLike(s0, this, src, early) ELSE s0
            IN SyncCopies(ShapeAsserts(s1, this, src), this, this, src)
       ELSE Unsupported(s0, this, src)

(* CopyToHost that copies from the host matrix into this *)
CopyToHost_Reversed(st, this, dst, early) ==
    LET s0 == FormatAssert(st, dst)
    IN IF dst \in Host
       THEN LET s1 == IF s0.hd[dst].nnz = 0 THEN AllocateLike(s0, dst, this, early) ELSE s0
            IN SyncCopies(ShapeAsserts(s1, this, dst), this, this, dst)
       ELSE Unsupported(s0, this, dst)

(* ---- HIPAcceleratorMatrixBCSR::CopyToHost ---- *)
CopyToHost(st, this, dst, early) ==
    LET s0 == FormatAssert(st, dst)
    IN IF dst \in Host
       THEN LET s1 == IF s0.hd[dst].nnz = 0 THEN AllocateLike(s0, dst, this, early) ELSE s0
            IN SyncCopies(ShapeAsserts(s1, this, dst), this, dst, this)
       ELSE Unsupported(s0, this, dst)

(* ---- HIPAcceleratorMatrixBCSR::CopyFrom ---- *)
CopyFrom(st, this, src, early) ==
    LET s0 == FormatAssert(st, src)
    IN IF src \in Dev
       THEN LET s1 == IF s0.hd[this].nnz = 0 THEN AllocateLike(s0, this, src, early) ELSE s0
            IN SyncCopies(ShapeAsserts(s1, this, src), this, this, src)
       ELSE IF IsHostMatrix(src) THEN CopyFromHost(s0, this, src, early)
       ELSE Unsupported(s0, this, src)

(* ---- HIPAcceleratorMatrixBCSR::CopyTo ---- *)
CopyTo(st, this, dst, early) ==
    LET s0 == FormatAssert(st, dst)
    IN IF dst \in Dev
       THEN LET s1 == IF s0.hd[dst].nnz = 0 THEN AllocateLike(s0, dst, this, early) ELSE s0
            IN SyncCopies(ShapeAsserts(s1, this, dst), this, dst, this)
       ELSE IF IsHostMatrix(dst) THEN CopyToHost(s0, this, dst, early)
       ELSE Unsupported(s0, this, dst)

(* ---- HIPAcceleratorMatrixBCSR::CopyFromHostAsync ---- *)
CopyFromHostAsync(st, this, src, early) ==
    LET s0 == FormatAssert(st, src)
    IN IF src \in Host
       THEN LET s1 == IF s0.hd[this].nnz = 0 THEN AllocateLike(s0, this, src, early) ELSE s0
            IN AsyncCopies(ShapeAsserts(s1, this, src), this, this, src)
       ELSE Unsupported(s0, this, src)

(* ---- HIPAcceleratorMatrixBCSR::CopyToHostAsync ---- *)
CopyToHostAsync(st, this, dst, early) ==
    LET s0 == FormatAssert(st, dst)
    IN IF dst \in Host
       THEN LET s1 == IF s0.hd[dst].nnz = 0 THEN AllocateLike(s0, dst, this, early) ELSE s0
            IN AsyncCopies(ShapeAsserts(s1, this, dst), this, dst, this)
       ELSE Unsupported(s0, this, dst)

(* ---- HIPAcceleratorMatrixBCSR::CopyFromAsync ---- *)
CopyFromAsync(st, this, src, early) ==
    LET s0 == FormatAssert(st, src)
    IN IF src \in Dev
       THEN LET s1 == IF s0.hd[this].nnz = 0 THEN AllocateLike(s0, this, src, early) ELSE s0
            IN AsyncCopies(ShapeAsserts(s1, this, src), this, this, src)
       ELSE IF IsHostMatrix(src) THEN CopyFromHostAsync(s0, this, src, early)
       ELSE Unsupported(s0, this, src)

(* ---- HIPAcceleratorMatrixBCSR::CopyToAsync ---- *)
(* the first-use allocation is guarded by this->nnz_, not by the           *)
(* destination's nnz_                                                      *)
CopyToAsync(st, this, dst, early) ==
    LET s0 == FormatAssert(st, dst)
    IN IF dst \in Dev
       THEN LET s1 == IF s0.hd[this].nnz = 0 THEN AllocateLike(s0, dst, this, early) ELSE s0
            IN AsyncCopies(ShapeAsserts(s1, this, dst), this, dst, this)
       ELSE IF IsHostMatrix(dst) THEN CopyToHostAsync(s0, this, dst, early)
       ELSE Unsupported(s0, this, dst)

(* the arrays a caller fills before SetDataPtrBCSR, and a converted matrix *)
Pattern(f, n, nnzb) ==
    [i \in 1..n |-> IF f = "row_offset" THEN (IF i = 1 THEN 0 ELSE nnzb)
                    ELSE IF f = "col" THEN i
                    ELSE 10 + i]

Fill(st, h, f, nnzb) ==
    IF st.fault # "none" THEN st
    ELSE [st EXCEPT !.heap[st.hd[h][f]] = Pattern(f, Len(@), nnzb)]

(***************************************************************************)
(* csr_to_bcsr_hip(handle, nnz, nrow, ncol, src, src_descr, &dst, descr):  *)
(* the regrouping kernel.  k is its outcome on the source at hand: whether *)
(* it succeeds and the block counts it finds.  On success it has allocated *)
(* and filled the three arrays of dst and set nrowb, ncolb and nnzb; on    *)
(* failure dst is as it was.                                               *)
(***************************************************************************)
csr_to_bcsr_hip(st, h, k) ==
    IF st.fault # "none" THEN st
    ELSE IF ~k.ok \/ Rd(st, h).blockdim <= 1 THEN [st EXCEPT !.ret = "false"]
    ELSE LET bd == Rd(st, h).blockdim
             a1 == allocate_hip(st, k.nrowb + 1, h, "row_offset")
             a2 == allocate_hip(a1, k.nnzb, h, "col")
             a3 == allocate_hip(a2, k.nnzb * bd * bd, h, "val")
             f1 == Fill(a3, h, "row_offset", k.nnzb)
             f2 == Fill(f1, h, "col", k.nnzb)
             f3 == Fill(f2, h, "val", k.nnzb)
         IN IF f3.fault # "none" THEN f3
            ELSE [f3 EXCEPT !.hd[h].nrowb = k.nrowb,
                            !.hd[h].ncolb = k.ncolb,
                            !.hd[h].nnzb = k.nnzb,
                            !.ret = "true"]

(* BaseMatrix::GetNnz of the argument of ConvertFrom *)
GetNnz(st, mat) ==
    IF mat \in Handles THEN st.hd[mat].nnz
    ELSE IF mat \in {"csr0", "other0"} THEN 0
    ELSE 1

Return(st, v) == IF st.fault # "none" THEN st ELSE [st EXCEPT !.ret = v]

(* ConvertFrom that does not clear the receiver first *)
ConvertFrom_NoClear(st, this, mat, early, k, dim) ==
    IF st.fault # "none" THEN st
    ELSE IF GetNnz(st, mat) = 0 THEN Return(st, "true")
    ELSE IF mat \in Dev THEN Return(CopyFrom(st, this, mat, early), "true")
    ELSE IF mat = "csr"
    THEN LET s2 == Clear(st, this, early)
             s3 == [s2 EXCEPT !.hd[this].blockdim = dim]
             s4 == csr_to_bcsr_hip(s3, this, k)
             r == Rd(s4, this)
         IN IF s4.fault # "none" THEN s4
            ELSE IF s4.ret = "true"
            THEN [s4 EXCEPT !.hd[this].nrow = r.nrowb * r.blockdim,
                            !.hd[this].ncol = r.ncolb * r.blockdim,
                            !.hd[this].nnz = r.nnzb * r.blockdim * r.blockdim]
            ELSE Return(s4, "false")
    ELSE Return(st, "false")

(* ---- HIPAcceleratorMatrixBCSR::ConvertFrom ---- *)
(* mat is a handle, a device CSR matrix ("csr", "csr0" when empty) or a    *)
(* matrix of another type ("other", "other0" when empty)                   *)
ConvertFrom(st, this, mat, early, k, dim) ==
    LET s1 == Clear(st, this, early)
    IN IF s1.fault # "none" THEN s1
       ELSE IF GetNnz(s1, mat) = 0 THEN Return(s1, "true")
       ELSE IF mat \in Dev THEN Return(CopyFrom(s1, this, mat, early), "true")
       ELSE IF mat = "csr"
       THEN LET s2 == Clear(s1, this, early)
                s3 == [s2 EXCEPT !.hd[this].blockdim = dim]
                s4 == csr_to_bcsr_hip(s3, this, k)
                r == Rd(s4, this)
            IN IF s4.fault # "none" THEN s4
               ELSE IF s4.ret = "true"
               THEN [s4 EXCEPT !.hd[this].nrow = r.nrowb * r.blockdim,
                               !.hd[this].ncol = r.ncolb * r.blockdim,
                               !.hd[this].nnz = r.nnzb * r.blockdim * r.blockdim]
               ELSE Return(s4, "false")
       ELSE Return(s1, "false")

(***************************************************************************)
(* rocsparseTbsrmv(handle, dir, op_none, nrowb, ncolb, nnzb, &alpha,       *)
(* descr, val, row_offset, col, blockdim, x, &beta, y):                    *)
(* y := alpha * A * x + beta * y over the blocks listed by row_offset and  *)
(* col, with index base zero; dir tells whether a block is stored by rows  *)
(* or by columns.  With beta = 0 the former y is not read.                 *)
(***************************************************************************)
Arr(hp, p) == IF p = NULL THEN <<>> ELSE hp[p]

RECURSIVE SumOf(_, _)
SumOf(f, S) ==
    IF S = {} THEN 0
    ELSE LET e == CHOOSE e \in S : TRUE IN f[e] + SumOf(f, S \ {e})

At(q, i) == IF i \in 1..Len(q) THEN q[i] ELSE 0

rocsparseTbsrmv(dir, r, ro, col, val, alpha, x, beta, y) ==
    LET bd == r.blockdim
        Row(i) == ((i - 1) \div bd)
        Blocks(i) == {j \in 0..(r.nnzb - 1) : At(ro, Row(i) + 1) <= j /\ j < At(ro, Row(i) + 2)}
        Terms(i) == Blocks(i) \X (0..(bd - 1))
        Elem(i, j, c) ==
            LET rr == (i - 1) % bd
            IN At(val, j * bd * bd + (IF dir = "row" THEN rr * bd + c ELSE rr + c * bd) + 1)
        Dot(i) == SumOf([t \in Terms(i) |-> Elem(i, t[1], t[2]) * At(x, At(col, t[1] + 1) * bd + t[2] + 1)],
                        Terms(i))
    IN [i \in 1..Len(y) |->
           IF i <= r.nrowb * bd
           THEN alpha * Dot(i) + (IF beta = 0 THEN 0 ELSE beta * y[i])
           ELSE y[i]]

(* BCSR_IND_BASE ? rocsparse_direction_row : rocsparse_direction_column *)
Directions == {"row", "column"}

(* the size and type preconditions of Apply and ApplyAdd *)
ApplyAsserts(st, h, in, out) ==
    IF st.fault # "none" THEN st
    ELSE IF ~(Len(in.v) >= 0 /\ Len(out.v) >= 0
              /\ Len(in.v) = st.hd[h].ncol /\ Len(out.v) = st.hd[h].nrow)
    THEN Fail(st, "assert")
    ELSE IF ~(in.type = "hip" /\ out.type = "hip") THEN Fail(st, "assert")
    ELSE st

(* Apply that adds to the output vector instead of overwriting it *)
Apply_BetaOne(st, h, in, out, dir) ==
    IF st.fault # "none" THEN st
    ELSE IF st.hd[h].nnz > 0
    THEN LET s1 == ApplyAsserts(st, h, in, out)
             r == Rd(s1, h)
         IN IF s1.fault # "none" THEN [s1 EXCEPT !.y = out.v]
            ELSE [s1 EXCEPT !.kernel = TRUE,
                            !.y = rocsparseTbsrmv(dir, r, Arr(s1.heap, r.row_offset),
                                                  Arr(s1.heap, r.col), Arr(s1.heap, r.val),
                                                  1, in.v, 1, out.v)]
    ELSE [st EXCEPT !.y = out.v]

(* ---- HIPAcceleratorMatrixBCSR::Apply ---- *)
(* y is the output vector as the call leaves it *)
Apply(st, h, in, out, dir) ==
    IF st.fault # "none" THEN st
    ELSE IF st.hd[h].nnz > 0
    THEN LET s1 == ApplyAsserts(st, h, in, out)
             r == Rd(s1, h)
         IN IF s1.fault # "none" THEN [s1 EXCEPT !.y = out.v]
            ELSE [s1 EXCEPT !.kernel = TRUE,
                            !.y = rocsparseTbsrmv(dir, r, Arr(s1.heap, r.row_offset),
                                                  Arr(s1.heap, r.col), Arr(s1.heap, r.val),
                                                  1, in.v, 0, out.v)]
    ELSE [st EXCEPT !.y = out.v]

(* ApplyAdd without the nnz_ > 0 guard *)
ApplyAdd_NoGuard(st, h, in, scalar, out, dir) ==
    IF st.fault # "none" THEN st
    ELSE LET s1 == ApplyAsserts(st, h, in, out)
             r == Rd(s1, h)
         IN IF s1.fault # "none" THEN [s1 EXCEPT !.y = out.v]
            ELSE [s1 EXCEPT !.kernel = TRUE,
                            !.y = rocsparseTbsrmv(dir, r, Arr(s1.heap, r.row_offset),
                                                  Arr(s1.heap, r.col), Arr(s1.heap, r.val),
                                                  scalar, in.v, 1, out.v)]

(* ---- HIPAcceleratorMatrixBCSR::ApplyAdd ---- *)
ApplyAdd(st, h, in, scalar, out, dir) ==
    IF st.fault # "none" THEN st
    ELSE IF st.hd[h].nnz > 0
    THEN LET s1 == ApplyAsserts(st, h, in, out)
             r == Rd(s1, h)
         IN IF s1.fault # "none" THEN [s1 EXCEPT !.y = out.v]
            ELSE [s1 EXCEPT !.kernel = TRUE,
                            !.y = rocsparseTbsrmv(dir, r, Arr(s1.heap, r.row_offset),
                                                  Arr(s1.heap, r.col), Arr(s1.heap, r.val),
                                                  scalar, in.v, 1, out.v)]
    ELSE [st EXCEPT !.y = out.v]

(* ---- completing a call: the context becomes the next state ---- *)
(* a destroyed handle takes part in no further call *)
Commit(st, call) ==
    /\ st.fault # "oom"
    /\ {call.h, call.a} \cap gone = {}
    /\ hd' = st.hd
    /\ heap' = st.heap
    /\ pending' = st.pending
    /\ fault' = st.fault
    /\ calls' = calls + 1
    /\ last' = [call EXCEPT !.raced = st.raced, !.alloc = st.alloc,
                            !.issued = st.issued, !.ret = st.ret,
                            !.rets = st.out, !.info = st.info,
                            !.y = st.y, !.kernel = st.kernel]

Running == fault = "none"

Callable == Running /\ calls < MaxCalls

Init ==
    /\ hd = [h \in Handles |-> FreshHandle]
    /\ heap = [i \in 1..MaxArrays |-> <<>>]
    /\ pending = {}
    /\ ext = {}
    /\ fault = "none"
    /\ last = NoCall
    /\ vsize \in ValueSizes
    /\ calls = 0
    /\ gone = {}

(* ---- what a call may find in indeterminate members ---- *)
NoGarbage == [h \in Handles |-> CHOOSE g \in GarbageLayouts : g.blockdim = 0]

Unwritten(h) ==
    h \in Handles /\ Indeterminate \in {hd[h].nrowb, hd[h].ncolb, hd[h].nnzb, hd[h].blockdim}

Garbage(x, y) ==
    {[h \in Handles |-> IF h = x THEN gx ELSE IF h = y THEN gy ELSE NoGarbage[h]] :
        gx \in (IF Unwritten(x) THEN GarbageLayouts ELSE {NoGarbage[x]}),
        gy \in (IF Unwritten(y) /\ y # x THEN GarbageLayouts ELSE {NoGarbage[x]})}

ReadDim(r) == IF r.blockdim_ = Indeterminate THEN GarbageVals ELSE {r.blockdim_}

Shape(r) == <<r.nrow, r.ncol, r.nnz, r.nrowb, r.ncolb, r.nnzb, r.blockdim>>

Snap(h0, hp, h) ==
    [shape |-> Shape(h0[h]), row_offset |-> Arr(hp, h0[h].row_offset),
     col |-> Arr(hp, h0[h].col), val |-> Arr(hp, h0[h].val)]

(* a free may race only with a copy outstanding on the array *)
Early(h) ==
    IF h \in Handles /\ \E c \in pending :
          {c.dst, c.src} \cap {hd[h].row_offset, hd[h].col, hd[h].val} # {}
    THEN BOOLEAN ELSE {FALSE}

CopyCall(op, this, a, s, d, h0) ==
    [NoCall EXCEPT !.op = op, !.h = this, !.a = a, !.src = s, !.dst = d,
                   !.srcNnz = IF s \in Handles THEN h0[s].nnz ELSE 0,
                   !.dstNnz = IF d \in Handles THEN h0[d].nnz ELSE 0]

Triplets ==
    {[nnzb |-> a, nrowb |-> b, ncolb |-> c, blockdim |-> d] :
        a \in 1..MaxNnzb, b \in 1..MaxNrowb, c \in 1..MaxNcolb, d \in 2..MaxBlockdim}

(***************************************************************************)
(* The arrays a caller passes to SetDataPtrBCSR: a triplet it holds from   *)
(* an earlier LeaveDataPtrBCSR, or three arrays it has just allocated and  *)
(* filled.  WithArrays is the heap that holds the arrays of triplet t.     *)
(***************************************************************************)
NewTriplet(t) ==
    LET p1 == NewId(heap)
        h1 == [heap EXCEPT ![p1] = Pattern("row_offset", t.nrowb + 1, t.nnzb)]
        p2 == NewId(h1)
        h2 == [h1 EXCEPT ![p2] = Pattern("col", t.nnzb, t.nnzb)]
        p3 == NewId(h2)
    IN [row_offset |-> p1, col |-> p2, val |-> p3, nnzb |-> t.nnzb,
        nrowb |-> t.nrowb, ncolb |-> t.ncolb, blockdim |-> t.blockdim]

WithArrays(t) ==
    IF t \in ext THEN heap
    ELSE [heap EXCEPT ![t.row_offset] = Pattern("row_offset", t.nrowb + 1, t.nnzb),
                      ![t.col] = Pattern("col", t.nnzb, t.nnzb),
                      ![t.val] = Pattern("val", t.nnzb * t.blockdim * t.blockdim, t.nnzb)]

GivenTriplets ==
    ext \cup (IF Cardinality(FreeIds(heap)) >= 3
              THEN {NewTriplet(t) : t \in Triplets} ELSE {})

SyncOps == {"CopyFrom", "CopyTo", "CopyFromHost", "CopyToHost"}
AsyncOps == {"CopyFromAsync", "CopyToAsync", "CopyFromHostAsync", "CopyToHostAsync"}

(* ---- one asynchronous copy completes ---- *)
Complete(c) ==
    /\ Running
    /\ c \in pending
    /\ heap' = DoCopy(heap, c.dst, c.src, c.n)
    /\ pending' = pending \ {c}
    /\ UNCHANGED <<hd, ext, fault, last, vsize, calls, gone>>

(* ---- the public methods of a device handle ---- *)
DoAllocateBCSR(h, nnzb, nrowb, ncolb, blockdim, early) ==
    /\ Callable
    /\ Commit(AllocateBCSR(Ctx(hd, heap, pending, NoGarbage), h, nnzb, nrowb, ncolb, blockdim, early),
              [NoCall EXCEPT !.op = "AllocateBCSR", !.h = h,
                             !.args = <<nnzb, nrowb, ncolb, blockdim>>,
                             !.dstNnz = hd[h].nnz])
    /\ UNCHANGED <<ext, vsize, gone>>

DoClear(h, early) ==
    /\ Callable
    /\ Commit(Clear(Ctx(hd, heap, pending, NoGarbage), h, early),
              [NoCall EXCEPT !.op = "Clear", !.h = h, !.dstNnz = hd[h].nnz])
    /\ UNCHANGED <<ext, vsize, gone>>

DoDestructor(h, early) ==
    /\ Callable
    /\ Commit(Destructor(Ctx(hd, heap, pending, NoGarbage), h, early),
              [NoCall EXCEPT !.op = "Destructor", !.h = h, !.dstNnz = hd[h].nnz])
    /\ gone' = gone \cup {h}
    /\ UNCHANGED <<ext, vsize>>

DoSetDataPtrBCSR(h, t, early) ==
    /\ Callable
    /\ t \in GivenTriplets
    /\ Commit(SetDataPtrBCSR(Ctx(hd, WithArrays(t), pending, NoGarbage), h, t, early),
              [NoCall EXCEPT !.op = "SetDataPtrBCSR", !.h = h,
                             !.dstNnz = hd[h].nnz,
                             !.given = <<t.row_offset, t.col, t.val, t.blockdim>>])
    /\ ext' = ext \ {t}
    /\ UNCHANGED <<vsize, gone>>

DoLeaveDataPtrBCSR(h) ==
    /\ Callable
    /\ Cardinality(ext) < MaxExt
    /\ LET st == LeaveDataPtrBCSR(Ctx(hd, heap, pending, NoGarbage), h)
           was == last.op = "SetDataPtrBCSR" /\ last.h = h
       IN /\ Commit(st, [NoCall EXCEPT !.op = "LeaveDataPtrBCSR", !.h = h,
                                       !.dstNnz = hd[h].nnz,
                                       !.afterSet = was,
                                       !.afterAsync = last.op \in AsyncOps /\ last.dst = h
                                                      /\ last.src \in Handles \ {h},
                                       !.given = IF was THEN last.given ELSE <<>>])
          /\ ext' = IF st.fault = "none"
                    THEN ext \cup {[row_offset |-> st.out[1], col |-> st.out[2],
                                    val |-> st.out[3], nnzb |-> hd[h].nnzb,
                                    nrowb |-> hd[h].nrowb, ncolb |-> hd[h].ncolb,
                                    blockdim |-> st.out[4]]}
                    ELSE ext
    /\ UNCHANGED <<vsize, gone>>

DoCopyFromHost(this, src, early) ==
    /\ Callable
    /\ \E gb \in Garbage(this, src) :
          Commit(CopyFromHost(Ctx(hd, heap, pending, gb), this, src, early),
                 CopyCall("CopyFromHost", this, src, src, this, hd))
    /\ UNCHANGED <<ext, vsize, gone>>

DoCopyToHost(this, dst, early) ==
    /\ Callable
    /\ \E gb \in Garbage(this, dst) :
          Commit(CopyToHost(Ctx(hd, heap, pending, gb), this, dst, early),
                 CopyCall("CopyToHost", this, dst, this, dst, hd))
    /\ UNCHANGED <<ext, vsize, gone>>

DoCopyFrom(this, src, early) ==
    /\ Callable
    /\ \E gb \in Garbage(this, src) :
          Commit(CopyFrom(Ctx(hd, heap, pending, gb), this, src, early),
                 CopyCall("CopyFrom", this, src, src, this, hd))
    /\ UNCHANGED <<ext, vsize, gone>>

DoCopyTo(this, dst, early) ==
    /\ Callable
    /\ \E gb \in Garbage(this, dst) :
          Commit(CopyTo(Ctx(hd, heap, pending, gb), this, dst, early),
                 CopyCall("CopyTo", this, dst, this, dst, hd))
    /\ UNCHANGED <<ext, vsize, gone>>

CanIssue == Cardinality(pending) + 3 <= MaxPending

DoCopyFromHostAsync(this, src, early) ==
    /\ Callable
    /\ CanIssue
    /\ \E gb \in Garbage(this, src) :
          Commit(CopyFromHostAsync(Ctx(hd, heap, pending, gb), this, src, early),
                 CopyCall("CopyFromHostAsync", this, src, src, this, hd))
    /\ UNCHANGED <<ext, vsize, gone>>

DoCopyToHostAsync(this, dst, early) ==
    /\ Callable
    /\ CanIssue
    /\ \E gb \in Garbage(this, dst) :
          Commit(CopyToHostAsync(Ctx(hd, heap, pending, gb), this, dst, early),
                 CopyCall("CopyToHostAsync", this, dst, this, dst, hd))
    /\ UNCHANGED <<ext, vsize, gone>>

DoCopyFromAsync(this, src, early) ==
    /\ Callable
    /\ CanIssue
    /\ \E gb \in Garbage(this, src) :
          Commit(CopyFromAsync(Ctx(hd, heap, pending, gb), this, src, early),
                 CopyCall("CopyFromAsync", this, src, src, this, hd))
    /\ UNCHANGED <<ext, vsize, gone>>

DoCopyToAsync(this, dst, early) ==
    /\ Callable
    /\ CanIssue
    /\ \E gb \in Garbage(this, dst) :
          Commit(CopyToAsync(Ctx(hd, heap, pending, gb), this, dst, early),
                 CopyCall("CopyToAsync", this, dst, this, dst, hd))
    /\ UNCHANGED <<ext, vsize, gone>>

KernelOutcomes ==
    {[ok |-> FALSE, nrowb |-> 0, ncolb |-> 0, nnzb |-> 0]}
    \cup {[ok |-> TRUE, nrowb |-> t.nrowb, ncolb |-> t.ncolb, nnzb |-> t.nnzb] : t \in Triplets}

DoConvertFrom(this, mat, early, k) ==
    /\ Callable
    /\ mat # "csr" => k = [ok |-> FALSE, nrowb |-> 0, ncolb |-> 0, nnzb |-> 0]
    /\ \E gb \in Garbage(this, mat) :
       \E dim \in (IF mat = "csr" THEN ReadDim(hd[this]) ELSE {0}) :
          Commit(ConvertFrom(Ctx(hd, heap, pending, gb), this, mat, early, k, dim),
                 CopyCall("ConvertFrom", this, mat, mat, this, hd))
    /\ UNCHANGED <<ext, vsize, gone>>

Args == Handles \cup {"other", "csr"}
HostArgs == Host \cup {"hother"}
Mats == Handles \cup {"csr", "csr0", "other", "other0"}

Next ==
    \/ \E c \in pending : Complete(c)
    \/ \E h \in Dev, nnzb \in 0..MaxNnzb, nrowb \in 0..MaxNrowb,
          ncolb \in 1..MaxNcolb, blockdim \in 2..MaxBlockdim : \E early \in Early(h) :
          DoAllocateBCSR(h, nnzb, nrowb, ncolb, blockdim, early)
    \/ \E h \in Dev : \E early \in Early(h) : DoClear(h, early)
    \/ \E h \in Dev : \E early \in Early(h) : DoDestructor(h, early)
    \/ \E h \in Dev, t \in GivenTriplets : \E early \in Early(h) : DoSetDataPtrBCSR(h, t, early)
    \/ \E h \in Dev : DoLeaveDataPtrBCSR(h)
    \/ \E this \in Dev, src \in HostArgs : \E early \in Early(this) : DoCopyFromHost(this, src, early)
    \/ \E this \in Dev, dst \in HostArgs : \E early \in Early(dst) : DoCopyToHost(this, dst, early)
    \/ \E this \in Dev, src \in Args : \E early \in Early(this) : DoCopyFrom(this, src, early)
    \/ \E this \in Dev, dst \in Args : \E early \in Early(dst) : DoCopyTo(this, dst, early)
    \/ \E this \in Dev, src \in HostArgs : \E early \in Early(this) : DoCopyFromHostAsync(this, src, early)
    \/ \E this \in Dev, dst \in HostArgs : \E early \in Early(dst) : DoCopyToHostAsync(this, dst, early)
    \/ \E this \in Dev, src \in Args : \E early \in Early(this) : DoCopyFromAsync(this, src, early)
    \/ \E this \in Dev, dst \in Args : \E early \in Early(dst) : DoCopyToAsync(this, dst, early)
    \/ \E this \in Dev, mat \in Mats : \E early \in Early(this), k \in KernelOutcomes :
          DoConvertFrom(this, mat, early, k)

Spec == Init /\ [][Next]_vars

(***************************************************************************)
(* The copies hipMemcpyAsync queues on the null stream are executed by the *)
(* device without any further call of the program: while the process runs, *)
(* an outstanding copy is not left waiting forever.                        *)
(***************************************************************************)
FairSpec == Spec /\ WF_vars(\E c \in pending : Complete(c))

(***************************************************************************)
(* The matrix-vector product.  Apply and ApplyAdd are const: they change   *)
(* no handle and no array, so they are explored in a specification of      *)
(* their own, over one device handle whose shape reaches two block rows    *)
(* and two block columns.  Vectors belong to the caller; a call is given   *)
(* an input and an output vector and leaves the output in last.y.          *)
(***************************************************************************)
VecTypes == {"hip", "host"}

InVecs == {[type |-> t, v |-> v] : t \in VecTypes, v \in {<<>>, <<3, 4>>, <<3, 4, 0, 0>>}}

OutVecs == {[type |-> t, v |-> v] : t \in VecTypes, v \in {<<>>, <<5, 6>>, <<5, 6, 7, 8>>}}

Scalars == {2}

(* AllocateBCSR arguments <<nnzb, nrowb, ncolb, blockdim>> of the product runs *)
ApplyShapes == {<<1, 2, 2, 2>>, <<1, 1, 1, 2>>, <<0, 2, 2, 2>>}

(* what the caller stores in the arrays of a populated handle:             *)
(* one block at block position (0,0), the identity block or a full block   *)
BlockAtOrigin(nrowb) == <<0>> \o [i \in 1..nrowb |-> 1]

IdentityBlock == <<1, 0, 0, 1>>

FullBlock == <<1, 2, 3, 4>>

StoreRowOffset(h) ==
    /\ Running
    /\ hd[h].nnz > 0
    /\ hd[h].nnzb = 1
    /\ heap' = [heap EXCEPT ![hd[h].row_offset] = BlockAtOrigin(hd[h].nrowb)]
    /\ UNCHANGED <<hd, pending, ext, fault, last, vsize, calls, gone>>

StoreVal(h, b) ==
    /\ Running
    /\ hd[h].nnz = Len(b)
    /\ heap' = [heap EXCEPT ![hd[h].val] = b]
    /\ UNCHANGED <<hd, pending, ext, fault, last, vsize, calls, gone>>

VecCall(op, h, in, out) ==
    [NoCall EXCEPT !.op = op, !.h = h, !.dstNnz = hd[h].nnz,
                   !.x = in.v, !.xtype = in.type, !.y0 = out.v, !.ytype = out.type]

DoApply(h, in, out, dir) ==
    /\ Callable
    /\ Commit(Apply(Ctx(hd, heap, pending, NoGarbage), h, in, out, dir),
              VecCall("Apply", h, in, out))
    /\ UNCHANGED <<ext, vsize, gone>>

DoApplyAdd(h, in, scalar, out, dir) ==
    /\ Callable
    /\ Commit(ApplyAdd(Ctx(hd, heap, pending, NoGarbage), h, in, scalar, out, dir),
              [VecCall("ApplyAdd", h, in, out) EXCEPT !.args = <<scalar>>])
    /\ UNCHANGED <<ext, vsize, gone>>

ApplyNext ==
    \/ \E a \in ApplyShapes : DoAllocateBCSR("d1", a[1], a[2], a[3], a[4], FALSE)
    \/ DoClear("d1", FALSE)
    \/ DoLeaveDataPtrBCSR("d1")
    \/ StoreRowOffset("d1")
    \/ \E b \in {IdentityBlock, FullBlock} : StoreVal("d1", b)
    \/ \E in \in InVecs, out \in OutVecs, dir \in Directions : DoApply("d1", in, out, dir)
    \/ \E in \in InVecs, out \in OutVecs, scalar \in Scalars, dir \in Directions :
          DoApplyAdd("d1", in, scalar, out, dir)

ApplySpec == Init /\ [][ApplyNext]_vars

(***************************************************************************)
(* Properties                                                              *)
(***************************************************************************)

Zeros(n) == [i \in 1..n |-> 0]

Empty(r) == r.nrow = 0 /\ r.ncol = 0 /\ r.nnz = 0

NullPtrs(r) == r.row_offset = NULL /\ r.col = NULL /\ r.val = NULL

Ptrs(r) == {r.row_offset, r.col, r.val} \ {NULL}

SameContents(a, b) ==
    /\ Arr(heap, hd[a].row_offset) = Arr(heap, hd[b].row_offset)
    /\ Arr(heap, hd[a].col) = Arr(heap, hd[b].col)
    /\ Arr(heap, hd[a].val) = Arr(heap, hd[b].val)

ZeroFilled(r, nnzb, nrowb, blockdim) ==
    /\ Arr(heap, r.row_offset) = Zeros(nrowb + 1)
    /\ Arr(heap, r.col) = Zeros(nnzb)
    /\ Arr(heap, r.val) = Zeros(nnzb * blockdim * blockdim)

AllocatedAsAsked(r, a) ==
    /\ fault = "none"
    /\ r.nrow = a[2] * a[4]
    /\ r.ncol = a[3] * a[4]
    /\ r.nnz = a[1] * a[4] * a[4]
    /\ ZeroFilled(r, a[1], a[2], a[4])

(* C1 (as claimed): after AllocateBCSR(nnzb, nrowb, ncolb, blockdim) the   *)
(* handle has nrow = nrowb*blockdim, ncol = ncolb*blockdim,                *)
(* nnz = nnzb*blockdim^2 and zero-filled arrays, also when nnzb = 0.       *)
C1_AllocateAnyNnzb ==
    last.op = "AllocateBCSR" => AllocatedAsAsked(hd[last.h], last.args)

(* C1 (amended): after AllocateBCSR with nnzb > 0 the shape is the one     *)
(* asked for and the three arrays are zero-filled; after AllocateBCSR with *)
(* nnzb = 0 the handle is empty (nrow = ncol = nnz = 0, no arrays),        *)
(* whatever nrowb and ncolb were.                                          *)
C1_AllocateBCSR ==
    last.op = "AllocateBCSR" =>
        IF last.args[1] > 0
        THEN AllocatedAsAsked(hd[last.h], last.args)
        ELSE fault = "none" /\ Empty(hd[last.h]) /\ NullPtrs(hd[last.h])

C1_Witness ==
    /\ last.op = "AllocateBCSR"
    /\ last.args[1] > 0
    /\ last.dstNnz > 0
    /\ hd[last.h].nnz = last.args[1] * last.args[4] * last.args[4]
    /\ fault = "none"

C1_WitnessEmpty ==
    /\ last.op = "AllocateBCSR"
    /\ last.args[1] = 0
    /\ last.args[2] > 0
    /\ last.dstNnz > 0

(* C2: a synchronous copy from a populated handle into a handle with       *)
(* nnz = 0 allocates the destination with the source's                     *)
(* (nnzb, nrowb, ncolb, blockdim), passes the shape assertions and leaves  *)
(* the destination's shape and array contents equal to the source's.       *)
C2_SyncCopyIntoEmpty ==
    (/\ last.op \in SyncOps
     /\ last.src \in Handles /\ last.dst \in Handles
     /\ last.srcNnz > 0 /\ last.dstNnz = 0) =>
        LET s == hd[last.src]
            d == hd[last.dst]
        IN /\ fault = "none"
           /\ last.alloc = <<s.nnzb, s.nrowb, s.ncolb, s.blockdim>>
           /\ Shape(d) = Shape(s)
           /\ Ptrs(d) \cap Ptrs(s) = {}
           /\ Cardinality(Ptrs(d)) = 3
           /\ SameContents(last.dst, last.src)

C2_Witness ==
    /\ last.op \in SyncOps
    /\ last.src \in Handles /\ last.dst \in Handles
    /\ last.srcNnz > 0 /\ last.dstNnz = 0
    /\ fault = "none"
    /\ Arr(heap, hd[last.dst].val) = Pattern("val", hd[last.src].nnz, hd[last.src].nnzb)
    /\ Arr(heap, hd[last.dst].col) = Pattern("col", hd[last.src].nnzb, hd[last.src].nnzb)

(* C3: CopyToAsync from a populated device handle into a device handle     *)
(* with nnz = 0 allocates the destination, passes the shape assertions and *)
(* issues the three copies.                                                *)
C3_CopyToAsyncIntoEmpty ==
    (/\ last.op = "CopyToAsync"
     /\ last.dst \in Dev
     /\ last.srcNnz > 0 /\ last.dstNnz = 0) =>
        /\ fault = "none"
        /\ last.alloc # <<>>
        /\ Len(last.issued) = 3

(* C4: the value-array copy of every asynchronous copy variant moves       *)
(* nnzb*blockdim*blockdim elements of the value type, so that once the     *)
(* copies have completed the destination val equals the source val.        *)
C4_AsyncValueCopy ==
    (/\ last.op \in AsyncOps
     /\ fault = "none"
     /\ Len(last.issued) = 3) =>
        LET s == hd[last.src]
        IN /\ last.issued[3].f = "val"
           /\ last.issued[3].bytes = s.nnzb * s.blockdim * s.blockdim * vsize
           /\ pending = {} =>
                 Arr(heap, hd[last.dst].val) = Arr(heap, s.val)

(* C5: with source and destination both at nnz = 0, every copy variant and *)
(* ConvertFrom completes without an assertion failure or fatal error and   *)
(* leaves both handles with nrow = ncol = nnz = 0.                         *)
C5_EmptyToEmpty ==
    (/\ last.op \in SyncOps \cup AsyncOps \cup {"ConvertFrom"}
     /\ last.src \in Handles /\ last.dst \in Handles
     /\ last.srcNnz = 0 /\ last.dstNnz = 0) =>
        /\ fault = "none"
        /\ Empty(hd[last.src])
        /\ Empty(hd[last.dst])

(* C6: SetDataPtrBCSR followed immediately by LeaveDataPtrBCSR hands back  *)
(* exactly the three pointers and the blockdim passed in, and leaves the   *)
(* handle with nrow = ncol = nnz = 0 and its three pointers NULL.          *)
C6_SetThenLeave ==
    (last.op = "LeaveDataPtrBCSR" /\ last.afterSet) =>
        /\ fault = "none"
        /\ last.rets = last.given
        /\ Empty(hd[last.h])
        /\ NullPtrs(hd[last.h])

C6_Witness ==
    /\ last.op = "LeaveDataPtrBCSR"
    /\ last.afterSet
    /\ fault = "none"
    /\ Len(last.rets) = 4
    /\ \E t \in ext : <<t.row_offset, t.col, t.val, t.blockdim>> = last.given

(* C7: in SetDataPtrBCSR and LeaveDataPtrBCSR no array of the handle is    *)
(* released while an asynchronous copy on it is still outstanding: the     *)
(* device synchronization comes first.                                     *)
C7_SyncBeforeRelease ==
    last.op \in {"SetDataPtrBCSR", "LeaveDataPtrBCSR"} => ~last.raced

(* the handle a call has written *)
Written ==
    IF last.op \in SyncOps \cup AsyncOps THEN last.dst ELSE last.h

Determinate(r) ==
    Indeterminate \notin {r.nrowb, r.ncolb, r.nnzb, r.blockdim}

Derived(r) ==
    /\ r.nrow = r.nrowb * r.blockdim
    /\ r.ncol = r.ncolb * r.blockdim
    /\ r.nnz = r.nnzb * r.blockdim * r.blockdim

(* C8: after every mutating operation returns, nrow = nrowb*blockdim,      *)
(* ncol = ncolb*blockdim and nnz = nnzb*blockdim^2 on the handle written   *)
(* (a block count that was never written is not held against the claim).   *)
C8_ShapeDerived ==
    (/\ last.op # "none"
     /\ fault = "none"
     /\ Written \in Handles
     /\ Determinate(hd[Written])) => Derived(hd[Written])

(* C9: ConvertFrom of any populated device BCSR handle returns true and    *)
(* leaves the receiver's shape and contents equal to those the argument    *)
(* had when the call was made.                                             *)
C9_ConvertAnyBCSR ==
    [][(/\ calls' # calls
        /\ last'.op = "ConvertFrom"
        /\ last'.a \in Dev
        /\ hd[last'.a].nnz > 0) =>
            /\ fault' = "none"
            /\ last'.ret = "true"
            /\ Snap(hd', heap', last'.h) = Snap(hd, heap, last'.a)]_vars

(* C9 fails when the argument is the receiver itself: the receiver, and so *)
(* the argument, is cleared before the argument is looked at.              *)
C9_SelfConvert ==
    /\ last.op = "ConvertFrom"
    /\ last.a = last.h
    /\ last.srcNnz > 0
    /\ last.ret = "true"
    /\ fault = "none"
    /\ Empty(hd[last.h])

(* What does hold for C9: with an argument other than the receiver,        *)
(* ConvertFrom returns true and the receiver's shape and contents equal    *)
(* the argument's on return; they are the ones the argument had when the   *)
(* call was made if no asynchronous copy into the argument was outstanding *)
(* then.                                                                   *)
C9_ConvertFromOther ==
    [][(/\ calls' # calls
        /\ last'.op = "ConvertFrom"
        /\ last'.a \in Dev
        /\ last'.a # last'.h
        /\ hd[last'.a].nnz > 0) =>
            /\ fault' = "none"
            /\ last'.ret = "true"
            /\ Snap(hd', heap', last'.h) = Snap(hd', heap', last'.a)
            /\ Ptrs(hd'[last'.h]) \cap Ptrs(hd'[last'.a]) = {}
            /\ (\A c \in pending : c.dst \notin Ptrs(hd[last'.a])) =>
                  Snap(hd', heap', last'.h) = Snap(hd, heap, last'.a)]_vars

C9_Witness ==
    /\ last.op = "ConvertFrom"
    /\ last.a \in Dev
    /\ last.a # last.h
    /\ last.srcNnz > 0
    /\ last.dstNnz > 0
    /\ last.ret = "true"
    /\ fault = "none"
    /\ Arr(heap, hd[last.h].val) = Pattern("val", hd[last.a].nnz, hd[last.a].nnzb)

(* C10: ConvertFrom of a matrix with GetNnz() = 0, of whatever type,       *)
(* returns true and leaves the receiver with nrow = ncol = nnz = 0 and the *)
(* arrays it held released.                                                *)
C10_ConvertFromEmpty ==
    [][(/\ calls' # calls
        /\ last'.op = "ConvertFrom"
        /\ \/ last'.a \in {"csr0", "other0"}
           \/ last'.a \in Handles /\ hd[last'.a].nnz = 0) =>
            /\ fault' = "none"
            /\ last'.ret = "true"
            /\ Empty(hd'[last'.h])
            /\ NullPtrs(hd'[last'.h])
            /\ \A p \in Ptrs(hd[last'.h]) : ~Live(heap', p)]_vars

C10_Witness ==
    /\ last.op = "ConvertFrom"
    /\ last.a \in {"csr0", "other0", "h1"}
    /\ last.srcNnz = 0
    /\ last.dstNnz > 0
    /\ last.ret = "true"
    /\ Empty(hd[last.h])

(* C11 (as claimed): every copy variant handed a matrix of a type it does  *)
(* not support reports Info of both operands and ends fatally without      *)
(* copying; ConvertFrom of a non-empty matrix that is neither a device     *)
(* BCSR nor a device CSR matrix returns false without a fatal error.       *)
C11_UnsupportedAnyFormat ==
    /\ (last.op \in SyncOps \cup AsyncOps /\ last.a \notin Handles) =>
          /\ fault = "fatal"
          /\ last.info = <<last.h, last.a>>
          /\ last.issued = <<>> /\ last.alloc = <<>>
    /\ (/\ last.op = "ConvertFrom"
        /\ last.a = "other" \/ (last.a \in Host /\ last.srcNnz > 0)) =>
          fault = "none" /\ last.ret = "false"

(* C11 (amended): a copy variant handed a BCSR matrix of a type it does    *)
(* not support reports Info of both operands and ends fatally without      *)
(* copying; handed a matrix of another format it fails the format          *)
(* assertion first and reports nothing; ConvertFrom of a non-empty matrix  *)
(* that is neither a device BCSR nor a device CSR matrix returns false     *)
(* without a fatal error.                                                  *)
C11_UnsupportedPolicies ==
    /\ (/\ last.op \in SyncOps \cup AsyncOps
        /\ last.a \notin Handles /\ last.a \in FormatBCSR) =>
          /\ fault = "fatal"
          /\ last.info = <<last.h, last.a>>
          /\ last.issued = <<>> /\ last.alloc = <<>>
    /\ (last.op \in SyncOps \cup AsyncOps /\ last.a \notin FormatBCSR) =>
          /\ fault = "assert"
          /\ last.info = <<>>
          /\ last.issued = <<>> /\ last.alloc = <<>>
    /\ (/\ last.op = "ConvertFrom"
        /\ last.a = "other" \/ (last.a \in Host /\ last.srcNnz > 0)) =>
          fault = "none" /\ last.ret = "false"

C11_Witness ==
    /\ last.op \in AsyncOps
    /\ last.a = "other"
    /\ hd[last.h].nnz > 0
    /\ fault = "fatal"
    /\ last.info = <<last.h, "other">>

C11_WitnessConvert ==
    /\ last.op = "ConvertFrom"
    /\ last.a \in Host
    /\ last.srcNnz > 0
    /\ last.dstNnz > 0
    /\ last.ret = "false"

(* C12: whenever ConvertFrom returns false the receiver is empty           *)
(* (nrow = ncol = nnz = 0), holds no array, and nothing of what it held    *)
(* before the call is left in it: its former arrays are released and its   *)
(* block counts are not those of the former contents.                      *)
C12_NoTraceAfterFailure ==
    [][(/\ calls' # calls
        /\ last'.op = "ConvertFrom"
        /\ last'.ret = "false") =>
            /\ fault' = "none"
            /\ Empty(hd'[last'.h])
            /\ NullPtrs(hd'[last'.h])
            /\ \A p \in Ptrs(hd[last'.h]) : ~Live(heap', p)
            /\ hd[last'.h].nnz > 0 =>
                  {hd'[last'.h].nrowb, hd'[last'.h].ncolb, hd'[last'.h].nnzb} = {0}]_vars

(* What does hold for C12: after ConvertFrom has returned false the        *)
(* receiver has nrow = ncol = nnz = 0 and NULL pointers, its former arrays *)
(* are released and no new array is allocated.                             *)
C12_ConvertFromFailure ==
    [][(/\ calls' # calls
        /\ last'.op = "ConvertFrom"
        /\ last'.ret = "false") =>
            /\ fault' = "none"
            /\ Empty(hd'[last'.h])
            /\ NullPtrs(hd'[last'.h])
            /\ \A p \in Ptrs(hd[last'.h]) : ~Live(heap', p)
            /\ FreeIds(heap) \subseteq FreeIds(heap')]_vars

C12_Witness ==
    /\ last.op = "ConvertFrom"
    /\ last.a = "csr"
    /\ last.ret = "false"
    /\ last.dstNnz > 0
    /\ Empty(hd[last.h])

(* a copy call whose destination is populated and differs in shape *)
MismatchedCopy(ops) ==
    /\ calls' # calls
    /\ last'.op \in ops
    /\ last'.src \in Handles /\ last'.dst \in Handles
    /\ hd[last'.dst].nnz > 0
    /\ Shape(hd[last'.src]) # Shape(hd[last'.dst])

(* the call has stopped at a shape assertion with the destination untouched *)
StoppedUntouched ==
    /\ fault' = "assert"
    /\ last'.alloc = <<>>
    /\ last'.issued = <<>>
    /\ hd'[last'.dst] = hd[last'.dst]
    /\ \A p \in Ptrs(hd[last'.dst]) : heap'[p] = heap[p]

(* C13: a copy variant, sync or async, whose destination has nnz > 0 and a *)
(* shape other than the source's does not reallocate the destination and   *)
(* fails the shape assertion before any array copy is issued, leaving the  *)
(* destination arrays as they were.                                        *)
C13_MismatchStops ==
    [][MismatchedCopy(SyncOps \cup AsyncOps) => StoppedUntouched]_vars

(* What does hold for C13: the same for every variant but CopyToAsync.     *)
C13_MismatchStopsOthers ==
    [][MismatchedCopy((SyncOps \cup AsyncOps) \ {"CopyToAsync"}) => StoppedUntouched]_vars

(* C13 fails in CopyToAsync from an empty source: the populated            *)
(* destination is cleared by the allocation meant for an empty one.        *)
C13_DestinationCleared ==
    /\ last.op = "CopyToAsync"
    /\ last.dst \in Dev
    /\ last.srcNnz = 0 /\ last.dstNnz > 0
    /\ last.alloc # <<>>
    /\ hd[last.dst].nnz = 0

(* C14: Clear on a populated handle frees its three arrays and sets        *)
(* nrow = ncol = nnz = 0, and the handle can be allocated again; Clear on  *)
(* a handle with nnz = 0 changes nothing and frees nothing; a second Clear *)
(* right after a Clear changes nothing, so no array is freed twice.        *)
C14_Clear ==
    [][(calls' # calls /\ last'.op = "Clear") =>
          LET h == last'.h
              after == Ctx(hd', heap', pending', NoGarbage)
          IN /\ fault' = "none"
             /\ IF hd[h].nnz > 0
                THEN /\ Cardinality(Ptrs(hd[h])) = 3
                     /\ \A p \in Ptrs(hd[h]) : Live(heap, p) /\ ~Live(heap', p)
                     /\ FreeIds(heap') = FreeIds(heap) \cup Ptrs(hd[h])
                     /\ Empty(hd'[h]) /\ NullPtrs(hd'[h])
                     /\ \A g \in Handles \ {h} : hd'[g] = hd[g]
                ELSE hd' = hd /\ heap' = heap /\ pending' = pending
             /\ \A e \in BOOLEAN : Clear(after, h, e) = after
             /\ AllocateBCSR(after, h, 1, 1, 1, 2, FALSE).hd[h].nnz = 4]_vars

C14_Witness ==
    /\ last.op = "Clear"
    /\ last.dstNnz > 0
    /\ fault = "none"
    /\ Empty(hd[last.h])
    /\ NullPtrs(hd[last.h])

C14_WitnessTwice ==
    /\ last.op = "Clear"
    /\ last.dstNnz = 0
    /\ hd[last.h].nnzb = 1
    /\ fault = "none"

(***************************************************************************)
(* C15.  On a handle with nnz = 0 (fresh, allocated with nnzb = 0,         *)
(* cleared, or emptied by LeaveDataPtrBCSR) Apply and ApplyAdd launch no   *)
(* kernel, fail no precondition and leave the output vector as it was,     *)
(* whatever the size and the type of the input and output vectors.         *)
(***************************************************************************)
C15_EmptyApply ==
    (last.op \in {"Apply", "ApplyAdd"} /\ last.dstNnz = 0) =>
        /\ fault = "none"
        /\ ~last.kernel
        /\ last.y = last.y0

C15_Witness ==
    /\ last.op = "ApplyAdd" /\ last.dstNnz = 0
    /\ last.xtype = "host" /\ last.x = <<3, 4>>
    /\ last.ytype = "hip" /\ last.y0 = <<5, 6, 7, 8>> /\ last.y = last.y0
    /\ NullPtrs(hd[last.h]) /\ hd[last.h].nrowb > 0

(***************************************************************************)
(* C16.  Scenario 1 as the claim states it: after AllocateBCSR(1, 2, 2, 2) *)
(* and the identity block stored in val, Apply on the input [3, 4]         *)
(* completes and yields [3, 4, 0, 0].                                      *)
(***************************************************************************)
Scenario1(h) ==
    /\ h \in Dev
    /\ <<hd[h].nnzb, hd[h].nrowb, hd[h].ncolb, hd[h].blockdim>> = <<1, 2, 2, 2>>
    /\ hd[h].nnz = 4
    /\ Arr(heap, hd[h].val) = IdentityBlock

C16_Scenario1AsStated ==
    [][(calls' # calls /\ last'.op = "Apply" /\ Scenario1(last'.h) /\ last'.x = <<3, 4>>
          /\ last'.xtype = "hip" /\ last'.ytype = "hip") =>
          fault' = "none" /\ last'.y = <<3, 4, 0, 0>>]_vars

(***************************************************************************)
(* C16, amended.  AllocateBCSR(1, 2, 2, 2) makes a 4 x 4 matrix, so Apply  *)
(* fails its size assertion for every vector whose size is not 4, the      *)
(* input [3, 4] among them, before any kernel runs and with the output     *)
(* untouched.  On the input [3, 4, 0, 0] and an output of size 4, both     *)
(* device vectors, it completes; it yields [3, 4, 0, 0] once row_offset    *)
(* holds [0, 1, 1] (the block at block position (0,0)), and [0, 0, 0, 0]   *)
(* while row_offset is still zero-filled as AllocateBCSR left it.          *)
(***************************************************************************)
C16_Scenario1 ==
    [][(calls' # calls /\ last'.op = "Apply" /\ Scenario1(last'.h)) =>
          LET h == last'.h
              call == last'
              fits == Len(call.x) = 4 /\ Len(call.y0) = 4
              device == call.xtype = "hip" /\ call.ytype = "hip"
          IN /\ hd[h].nrow = 4 /\ hd[h].ncol = 4
             /\ hd' = hd /\ heap' = heap
             /\ ~(fits /\ device) =>
                  fault' = "assert" /\ ~call.kernel /\ call.y = call.y0
             /\ (fits /\ device) =>
                  /\ fault' = "none" /\ call.kernel
                  /\ Arr(heap, hd[h].col) = <<0>>
                  /\ Arr(heap, hd[h].row_offset) \in {<<0, 0, 0>>, <<0, 1, 1>>}
                  /\ call.x = <<3, 4, 0, 0>> =>
                        call.y = IF Arr(heap, hd[h].row_offset) = <<0, 1, 1>>
                                 THEN <<3, 4, 0, 0>> ELSE <<0, 0, 0, 0>>]_vars

C16_Witness ==
    /\ last.op = "Apply" /\ Scenario1(last.h)
    /\ last.x = <<3, 4, 0, 0>> /\ last.y0 = <<5, 6, 7, 8>>
    /\ Arr(heap, hd[last.h].row_offset) = <<0, 1, 1>>
    /\ last.y = <<3, 4, 0, 0>> /\ fault = "none"

C16_WitnessShortInput ==
    /\ last.op = "Apply" /\ Scenario1(last.h)
    /\ last.x = <<3, 4>> /\ last.xtype = "hip" /\ last.ytype = "hip"
    /\ Len(last.y0) = 4 /\ fault = "assert"

(***************************************************************************)
(* C17.  Round trip.  A populated device matrix A is copied to an empty    *)
(* host matrix with CopyToHost, and the host matrix is then copied into a  *)
(* fresh device handle B with CopyFromHost (directly or through CopyFrom's *)
(* dispatch).  Both copies complete, B ends with the shape and the         *)
(* row_offset, col and val contents of A, and neither copy changes A.      *)
(***************************************************************************)
ToHostOps == {"CopyToHost", "CopyTo"}
FromHostOps == {"CopyFromHost", "CopyFrom"}

(* the call being committed copies populated device A to the empty host matrix *)
OutwardLeg ==
    /\ calls' # calls /\ last'.op \in ToHostOps
    /\ last'.src \in Dev /\ last'.dst \in Host
    /\ last'.srcNnz > 0 /\ last'.dstNnz = 0
    /\ pending = {}

(* the call being committed copies that host matrix into the fresh handle B *)
ReturnLeg ==
    /\ calls' # calls /\ last'.op \in FromHostOps
    /\ last.op \in ToHostOps /\ last.src \in Dev /\ last.dst \in Host
    /\ last.srcNnz > 0 /\ last.dstNnz = 0 /\ fault = "none"
    /\ last'.src = last.dst /\ last'.dst \in Dev \ {last.src}
    /\ hd[last'.dst] = FreshHandle

CallerArrays(t) == {t.row_offset, t.col, t.val}

Owned(h0, hp, ex) ==
    /\ \A g \in Handles : \A h \in Handles \ {g} : Ptrs(h0[g]) \cap Ptrs(h0[h]) = {}
    /\ \A t \in ex :
          /\ Cardinality(CallerArrays(t)) = 3
          /\ \A p \in CallerArrays(t) : Live(hp, p)
          /\ \A h \in Handles : CallerArrays(t) \cap Ptrs(h0[h]) = {}

C18_ExclusiveOwnership ==
    [][/\ Owned(hd, heap, ext) /\ Owned(hd', heap', ext')
       /\ \A t \in ext \cap ext' : \A p \in CallerArrays(t) : heap'[p] = heap[p]
       /\ (calls' # calls /\ last'.op = "LeaveDataPtrBCSR" /\ fault' = "none") =>
             /\ NullPtrs(hd'[last'.h]) /\ Empty(hd'[last'.h])
             /\ {last'.rets[1], last'.rets[2], last'.rets[3]} = Ptrs(hd[last'.h])
             /\ \E t \in ext' : CallerArrays(t) = Ptrs(hd[last'.h])
       /\ \A h \in Dev : \A e \in BOOLEAN :
             LET after == Ctx(hd', heap', pending', NoGarbage)
                 cleared == Clear(after, h, e)
                 destroyed == Destructor(after, h, e)
             IN /\ \A t \in ext' : \A p \in CallerArrays(t) : Live(cleared.heap, p)
                /\ \A t \in ext' : \A p \in CallerArrays(t) : Live(destroyed.heap, p)]_vars

(* the caller holds the arrays d1 handed out, and d1 has since been destroyed *)
C18_Witness ==
    /\ last.op = "Destructor" /\ last.h = "d1" /\ "d1" \in gone
    /\ hd["d2"] = FreshHandle
    /\ ext # {}
    /\ \A t \in ext : \A p \in CallerArrays(t) : Live(heap, p)
    /\ fault = "none"

(* the caller holds arrays a handle handed out, and the handle has been reallocated *)
C18_WitnessReallocated ==
    /\ last.op = "AllocateBCSR" /\ last.h = "d1" /\ hd["d1"].nnz > 0
    /\ hd["d2"] = FreshHandle
    /\ ext # {}
    /\ fault = "none"

(***************************************************************************)
(* C19.  With source and destination both at nnz = 0, an asynchronous copy *)
(* issues none of the three array copies, and a synchronous copy completes *)
(* as a zero-length pass: each of its three copies moves zero bytes.       *)
(***************************************************************************)
BothEmpty ==
    /\ last.src \in Handles /\ last.dst \in Handles
    /\ last.srcNnz = 0 /\ last.dstNnz = 0

C19_EmptyCopies ==
    /\ (last.op \in AsyncOps /\ BothEmpty) => last.issued = <<>>
    /\ (last.op \in SyncOps /\ BothEmpty) =>
          /\ fault = "none"
          /\ Len(last.issued) = 3
          /\ \A i \in 1..3 : last.issued[i].bytes = 0

(* the asynchronous half between two different handles: no copy is issued *)
C19_AsyncIssuesNone ==
    (last.op \in AsyncOps /\ BothEmpty /\ last.src # last.dst) => last.issued = <<>>

(* an asynchronous copy of an emptied handle onto itself allocates it from *)
(* its stale block counts and then issues the three copies                 *)
C19_SelfCopyIssues ==
    /\ last.op \in AsyncOps /\ BothEmpty /\ last.src = last.dst
    /\ Len(last.issued) = 3 /\ last.alloc # <<>>
    /\ hd[last.dst].nnz > 0

(* a synchronous copy between two empty handles whose checks all pass asks *)
(* hipMemcpy for (nrowb + 1) * sizeof(int) > 0 bytes through NULL pointers *)
C19_NullCopy ==
    /\ last.op \in SyncOps /\ BothEmpty
    /\ fault = "hip_error"
    /\ Len(last.issued) = 1 /\ last.issued[1].f = "row_offset" /\ last.issued[1].bytes > 0
    /\ NullPtrs(hd[last.src]) /\ NullPtrs(hd[last.dst])

SyncPoints == SyncOps \cup {"LeaveDataPtrBCSR"}

Synchronizing == SyncPoints \cup {"SetDataPtrBCSR", "ConvertFrom"}

(* the latest call is an asynchronous copy between two handles that returned *)
AsyncReturned ==
    /\ last.op \in AsyncOps /\ fault = "none"
    /\ last.src \in Handles /\ last.dst \in Handles

IndexArraysEqual(h0, hp, d, s) ==
    /\ Arr(hp, h0[d].row_offset) = Arr(hp, h0[s].row_offset)
    /\ Arr(hp, h0[d].col) = Arr(hp, h0[s].col)

C20_WitnessAborted == pending # {} /\ fault # "none"

(***************************************************************************)
(* C21.  Storage invariant.  At every state a handle has nnz > 0 exactly   *)
(* when its three array pointers are non-null, distinct and allocated with *)
(* nrowb + 1, nnzb and nnzb * blockdim * blockdim elements, and with       *)
(* nnz = 0 its three pointers are NULL.  Every allocated array is held by  *)
(* a handle or by the caller, so none has leaked, and Clear run in any     *)
(* state frees exactly the allocated arrays of its handle, each once.      *)
(***************************************************************************)
Stored(h0, hp, h) ==
    LET r == h0[h]
    IN /\ r.row_offset # NULL /\ r.col # NULL /\ r.val # NULL
       /\ Cardinality({r.row_offset, r.col, r.val}) = 3
       /\ Live(hp, r.row_offset) /\ Live(hp, r.col) /\ Live(hp, r.val)
       /\ Len(hp[r.row_offset]) = r.nrowb + 1
       /\ Len(hp[r.col]) = r.nnzb
       /\ Len(hp[r.val]) = r.nnzb * r.blockdim * r.blockdim

Held(h0, ex) ==
    UNION {Ptrs(h0[h]) : h \in Handles} \cup UNION {{t.row_offset, t.col, t.val} : t \in ex}

C21_StorageInvariant ==
    /\ \A h \in Handles :
          /\ hd[h].nnz > 0 <=> Stored(hd, heap, h)
          /\ hd[h].nnz = 0 => NullPtrs(hd[h])
    /\ {p \in DOMAIN heap : Live(heap, p)} = Held(hd, ext)
    /\ fault = "none" =>
          \A h \in Dev : \A e \in Early(h) :
             LET c == Clear(Ctx(hd, heap, pending, NoGarbage), h, e)
             IN /\ NullPtrs(c.hd[h]) /\ c.hd[h].nnz = 0
                /\ FreeIds(c.heap) = FreeIds(heap) \cup Ptrs(hd[h])
                /\ Ptrs(hd[h]) \cap FreeIds(heap) = {}

(* a populated handle after a conversion whose kernel failed on another handle *)
C21_Witness ==
    /\ last.op = "ConvertFrom" /\ last.a = "csr" /\ last.ret = "false" /\ fault = "none"
    /\ hd[last.h].nnz = 0 /\ last.dstNnz > 0
    /\ \E g \in Dev \ {last.h} : hd[g].nnz > 0 /\ Stored(hd, heap, g)

(***************************************************************************)
(* C22.  Race freedom: no call frees an array while an asynchronous copy   *)
(* that reads or writes the array is still outstanding.                    *)
(***************************************************************************)
C22_NoFreeWhilePending == ~last.raced

(* the calls that can free an array under an outstanding copy; the others, *)
(* LeaveDataPtrBCSR and the synchronous copies among them, never do        *)
Releasing == {"Clear", "AllocateBCSR", "ConvertFrom", "SetDataPtrBCSR", "Destructor"}

C22_OnlyReleasingCallsRace == last.raced => last.op \in Releasing

(* Clear frees the arrays an asynchronous copy issued just before still reads *)
C22_ClearRaces ==
    /\ last.op = "Clear" /\ last.raced /\ fault = "none"
    /\ NullPtrs(hd[last.h]) /\ pending = {}

(* every releasing call is reached with a copy outstanding on an array it frees *)
C22_DestructorRaces == last.op = "Destructor" /\ last.raced

====
